---- MODULE Spec2Model ----
(***************************************************************************)
(* The client-side analytics aggregator of src/src/services/analytics.js:  *)
(* the module-level analyticsData object, the localStorage entry kept      *)
(* under ANALYTICS_KEY, and the exported operations acting on them.        *)
(*                                                                         *)
(* JavaScript values are modelled as follows.                              *)
(*   - a string payload value is Str(s), a number payload value Num(n);    *)
(*   - a counter of a dailyStats entry is Num(n), NaN or Null, because     *)
(*     `undefined++` yields NaN and JSON.stringify writes NaN as null;      *)
(*   - totals and timestamps are plain integers (milliseconds counted      *)
(*     from a model epoch);                                                *)
(*   - the day key new Date().toISOString().split('T')[0] is the number of *)
(*     the UTC day, DayKey(t).                                             *)
(* The store entry is kept parsed: Absent, Unparseable, JsonNull, or       *)
(* Json(v) where v is what JSON.parse returns for the stored text.         *)
(* Date.now() is read once per call: the reads a handler makes are taken   *)
(* to fall in the same millisecond.  The development-only console.log of   *)
(* trackEvent changes no state and is left out.                            *)
(***************************************************************************)
EXTENDS Integers, Sequences, FiniteSets, TLC

VARIABLES
    now,            \* Date.now()
    hasWindow,      \* typeof window !== 'undefined'
    analyticsData,  \* the module-level state object
    store,          \* the localStorage entry under ANALYTICS_KEY
    summary,        \* the record most recently returned by getAnalyticsSummary
    raised,         \* what the last call raised to its caller ("none" if nothing)
    lastCall,       \* the last operation and how the store behaved during it
    tracked,        \* history: every event recorded into the current state
    storedTracked,  \* history: value of tracked when the entry was written
    calls,          \* number of steps taken
    initialized     \* initAnalytics has run since the module was loaded

\* a call of sanitizeData on its own
VARIABLES
    payload,        \* the caller's payload object
    sanitized       \* what sanitizeData returned, once it has

VARIABLES
    uiSteps         \* number of steps taken by the components

\* the Gallery page and the timers it has set
VARIABLES
    galleryMounted, \* the Gallery component is mounted
    searchQuery,    \* its searchQuery state
    timers,         \* timeouts set and not yet fired or cleared
    timeoutId,      \* the id the cleanup of the last search effect clears
    timerSeq,       \* number of timeouts set so far
    changedAt       \* history: time of the last change of searchQuery

\* the PWAInstallPrompt component and the browser around it
VARIABLES
    promptMounted,      \* the component is mounted
    listening,          \* its two window listeners are registered
    deferredPrompt,     \* its deferredPrompt state: 0 for null, else the event
    showInstallPrompt,  \* its showInstallPrompt state
    isInstalled,        \* its isInstalled state
    effectPending,      \* the effect on [deferredPrompt] is due after a commit
    awaitingChoice,     \* handleInstallClick is suspended on userChoice
    dismissedEntry,     \* the localStorage entry 'pwa-install-dismissed'
    eventSeq            \* number of beforeinstallprompt events so far

\* the GameDetail page and the loads it has started
VARIABLES
    detailMounted,  \* the page is mounted
    slug,           \* the route parameter of the last render
    game,           \* its game state: "" for null, else the slug of the game
    loading,        \* its loading state
    error,          \* its error state: "" for null, else the message
    loads,          \* calls of loadGame suspended on fetch or on json()
    loadSeq         \* number of calls of loadGame so far

analyticsVars ==
    <<now, hasWindow, analyticsData, store, summary, raised, lastCall,
      tracked, storedTracked, calls, initialized>>

sanitizeVars == <<payload, sanitized>>

galleryVars ==
    <<galleryMounted, searchQuery, timers, timeoutId, timerSeq, changedAt>>

promptVars ==
    <<promptMounted, listening, deferredPrompt, showInstallPrompt, isInstalled,
      effectPending, awaitingChoice, dismissedEntry, eventSeq>>

detailVars == <<detailMounted, slug, game, loading, error, loads, loadSeq>>

\* the components
componentVars == <<uiSteps, galleryVars, promptVars, detailVars>>

\* everything outside the analytics service
uiVars == <<sanitizeVars, componentVars>>

vars == <<analyticsVars, uiVars>>

----------------------------------------------------------------------------
(* Program constants *)

ALLOWED_EVENTS ==
    {"page_view", "game_play", "search_query", "filter_used", "game_favorite"}

personalFields == {"name", "email", "phone", "address", "ip", "userId"}

MaxEvents == 100

MaxStringLen == 100

MsPerDay == 24 * 60 * 60 * 1000

SevenDays == 7 * MsPerDay

(* Bounds of the model *)

MaxCalls == 3

StartTime == 8 * MsPerDay

Paths == {"/"}

Slugs == {"x"}

Queries == {"q"}

FilterTypes == {"genre"}

FilterValues == {"puzzle"}

\* How localStorage behaves during one call: every access works; every
\* access throws (privacy mode); or small writes work and the write of the
\* analytics entry throws (quota exceeded).
StoreModes == {"ok", "throws", "quota"}

\* without a window object the store is never touched
ModesFor(win) == IF win THEN StoreModes ELSE {"ok"}

----------------------------------------------------------------------------
(* JavaScript values *)

Str(s) == [t |-> "string", v |-> s]

Num(n) == [t |-> "number", v |-> n]

NaN == [t |-> "NaN"]

Null == [t |-> "null"]

\* x++ on a property holding v: the value stored back
Increment(v) ==
    CASE v.t = "number"    -> Num(v.v + 1)
      [] v.t = "null"      -> Num(1)
      [] OTHER             -> NaN

DayKey(t) == t \div MsPerDay

ZeroTotals == [pageViews |-> 0, gamePlays |-> 0, searches |-> 0, filterUses |-> 0]

ZeroDay ==
    [pageViews |-> Num(0), gamePlays |-> Num(0), searches |-> Num(0),
     filterUses |-> Num(0)]

NoDays == [d \in {} |-> ZeroDay]

\* the object literal assigned to analyticsData at module load and on reset
FreshData(t) ==
    [events |-> <<>>, totals |-> ZeroTotals, dailyStats |-> NoDays,
     lastUpdated |-> t]

----------------------------------------------------------------------------
(* The store entry *)

Absent == [kind |-> "absent"]

Unparseable == [kind |-> "unparseable"]

Json(v) == [kind |-> "json", value |-> v]

JsonNull == [kind |-> "jsonnull"]

\* JSON.stringify followed by JSON.parse of one counter: NaN is written as null
StringifyNumber(v) == IF v.t = "NaN" THEN Null ELSE v

\* JSON.stringify(analyticsData), kept as the value JSON.parse gives back
Stringify(d) ==
    [events      |-> d.events,
     totals      |-> d.totals,
     dailyStats  |-> [k \in DOMAIN d.dailyStats |->
                        [f \in DOMAIN d.dailyStats[k] |->
                            StringifyNumber(d.dailyStats[k][f])]],
     lastUpdated |-> d.lastUpdated]

----------------------------------------------------------------------------
(* The operations of analytics.js, as functions of the state they read *)

\* sanitizeData cutting at `length >= 100` in place of `length > 100`
sanitizeData_CutsAtLimit(data) ==
    [k \in DOMAIN data \ personalFields |->
        IF data[k].t = "string" /\ Len(data[k].v) >= MaxStringLen
        THEN Str(SubSeq(data[k].v, 1, MaxStringLen) \o "...")
        ELSE data[k]]

\* sanitizeData: drop the personal fields, cut long strings
sanitizeData(data) ==
    [k \in DOMAIN data \ personalFields |->
        IF data[k].t = "string" /\ Len(data[k].v) > MaxStringLen
        THEN Str(SubSeq(data[k].v, 1, MaxStringLen) \o "...")
        ELSE data[k]]

\* updateTotals with the break statements missing: a case falls through
updateTotals_FallThrough(totals, eventType) ==
    CASE eventType = "page_view"    ->
            [totals EXCEPT !.pageViews = @ + 1, !.gamePlays = @ + 1,
                           !.searches = @ + 1, !.filterUses = @ + 1]
      [] eventType = "game_play"    ->
            [totals EXCEPT !.gamePlays = @ + 1, !.searches = @ + 1,
                           !.filterUses = @ + 1]
      [] eventType = "search_query" ->
            [totals EXCEPT !.searches = @ + 1, !.filterUses = @ + 1]
      [] eventType = "filter_used"  -> [totals EXCEPT !.filterUses = @ + 1]
      [] OTHER                      -> totals

\* updateTotals building a new totals object that holds only its own counter
updateTotals_Overwrites(totals, eventType) ==
    CASE eventType = "page_view"    ->
            [ZeroTotals EXCEPT !.pageViews = totals.pageViews + 1]
      [] eventType = "game_play"    ->
            [ZeroTotals EXCEPT !.gamePlays = totals.gamePlays + 1]
      [] eventType = "search_query" ->
            [ZeroTotals EXCEPT !.searches = totals.searches + 1]
      [] eventType = "filter_used"  ->
            [ZeroTotals EXCEPT !.filterUses = totals.filterUses + 1]
      [] OTHER                      -> totals

\* the switch of trackEvent over the event type
updateTotals(totals, eventType) ==
    CASE eventType = "page_view"    -> [totals EXCEPT !.pageViews = @ + 1]
      [] eventType = "game_play"    -> [totals EXCEPT !.gamePlays = @ + 1]
      [] eventType = "search_query" -> [totals EXCEPT !.searches = @ + 1]
      [] eventType = "filter_used"  -> [totals EXCEPT !.filterUses = @ + 1]
      [] OTHER                      -> totals

\* updateDailyStats, the dailyStats part: today's entry is created when
\* absent, then the property named by event.type is incremented
updateDailyStats(dailyStats, event, t) ==
    LET today == DayKey(t)
        entry == IF today \in DOMAIN dailyStats THEN dailyStats[today] ELSE ZeroDay
        old   == IF event.type \in DOMAIN entry THEN entry[event.type]
                 ELSE [t |-> "undefined"]
        new   == [f \in DOMAIN entry \cup {event.type} |->
                    IF f = event.type THEN Increment(old) ELSE entry[f]]
    IN  [k \in DOMAIN dailyStats \cup {today} |->
            IF k = today THEN new ELSE dailyStats[k]]

\* slice(0, 100) in place of slice(-100): the oldest events are kept
slice_KeepsOldest(events) ==
    IF Len(events) > MaxEvents THEN SubSeq(events, 1, MaxEvents) ELSE events

\* analyticsData.events.slice(-100)
slice(events) ==
    IF Len(events) > MaxEvents
    THEN SubSeq(events, Len(events) - MaxEvents + 1, Len(events))
    ELSE events

\* saveToStorage writing the entry before it cuts the buffer
saveToStorage_WritesBeforeCut(d, st, win, mode) ==
    IF ~win \/ mode = "throws"
    THEN [data |-> d, store |-> st, wrote |-> FALSE]
    ELSE LET cut == [d EXCEPT !.events = slice(@)]
         IN  IF mode = "quota"
             THEN [data |-> cut, store |-> st, wrote |-> FALSE]
             ELSE [data |-> cut, store |-> Json(Stringify(d)), wrote |-> TRUE]

\* saveToStorage: the state and the store entry it leaves
saveToStorage(d, st, win, mode) ==
    IF ~win \/ mode = "throws"
    THEN [data |-> d, store |-> st, wrote |-> FALSE]
    ELSE LET cut == [d EXCEPT !.events = slice(@)]
         IN  IF mode = "quota"
             THEN [data |-> cut, store |-> st, wrote |-> FALSE]
             ELSE [data |-> cut, store |-> Json(Stringify(cut)), wrote |-> TRUE]

\* sanitizeData, the caller's object after the call: the function works on
\* the copy { ...data } and leaves the argument as it was
sanitizeDataArgument(data) == data

\* the event trackEvent builds
NewEvent(eventType, data, t) ==
    [type |-> eventType, data |-> sanitizeData(data), timestamp |-> t]

\* trackEvent after its check of the event type: sanitize, push, count, save
recordEvent(d, st, eventType, data, t, win, mode) ==
    IF "events" \notin DOMAIN d
    THEN \* analyticsData.events is undefined: push throws
         [data |-> d, store |-> st, raised |-> "TypeError", recorded |-> FALSE,
          wrote |-> FALSE]
    ELSE LET event == NewEvent(eventType, data, t)
             d1 == [d EXCEPT !.events = Append(@, event),
                             !.totals = updateTotals(@, eventType),
                             !.dailyStats = updateDailyStats(@, event, t),
                             !.lastUpdated = t]
             sv == saveToStorage(d1, st, win, mode)
         IN  [data |-> sv.data, store |-> sv.store, raised |-> "none",
              recorded |-> TRUE, wrote |-> sv.wrote]

\* trackEvent without the check of the event type
trackEvent_NoTypeCheck(d, st, eventType, data, t, win, mode) ==
    recordEvent(d, st, eventType, data, t, win, mode)

\* trackEvent: the state, the store entry and the outcome for the caller
trackEvent(d, st, eventType, data, t, win, mode) ==
    IF eventType \notin ALLOWED_EVENTS
    THEN [data |-> d, store |-> st, raised |-> "none", recorded |-> FALSE,
          wrote |-> FALSE]
    ELSE recordEvent(d, st, eventType, data, t, win, mode)

\* initAnalytics keeping six days of data in place of seven
Adopts_SixDays(st, t, win, mode) ==
    /\ win
    /\ mode # "throws"
    /\ st.kind = "json"
    /\ "lastUpdated" \in DOMAIN st.value
    /\ st.value.lastUpdated > t - 6 * MsPerDay

\* initAnalytics, the condition under which `analyticsData = parsed` runs
Adopts(st, t, win, mode) ==
    /\ win
    /\ mode # "throws"
    /\ st.kind = "json"
    /\ "lastUpdated" \in DOMAIN st.value
    /\ st.value.lastUpdated > t - SevenDays

\* initAnalytics, the state established before the page view is tracked
LoadStored(d, st, t, win, mode) ==
    IF Adopts(st, t, win, mode) THEN st.value ELSE d

\* the record getAnalyticsSummary returns; live tells whether its totals and
\* dailyStats are still the objects analyticsData refers to
NoSummary == [kind |-> "none"]

\* getAnalyticsSummary handing out the raw event buffer as well
SummaryOf_WithEvents(d) ==
    [kind |-> "record", totals |-> d.totals, dailyStats |-> d.dailyStats,
     lastUpdated |-> d.lastUpdated, eventCount |-> Len(d.events),
     events |-> d.events, live |-> TRUE]

SummaryOf(d) ==
    [kind |-> "record", totals |-> d.totals, dailyStats |-> d.dailyStats,
     lastUpdated |-> d.lastUpdated, eventCount |-> Len(d.events), live |-> TRUE]

\* what a returned record reads as after a call that left state d; replaced
\* tells whether the call assigned a new object to analyticsData
SummaryAfter(s, d, replaced) ==
    IF s.kind = "none" THEN s
    ELSE IF replaced THEN [s EXCEPT !.live = FALSE]
    ELSE IF s.live THEN [s EXCEPT !.totals = d.totals,
                                  !.dailyStats = d.dailyStats]
    ELSE s

----------------------------------------------------------------------------
(* Initial states *)

\* The state of an earlier session: k >= 1 calls of trackPageView on path p,
\* all at time t, starting from the state of module load, with a working
\* store (k <= MaxEvents, so nothing was cut).
EarlierSession(k, p, t) ==
    LET event == NewEvent("page_view", [path |-> Str(p)], t)
    IN  [events      |-> [i \in 1..k |-> event],
         totals      |-> [ZeroTotals EXCEPT !.pageViews = k],
         dailyStats  |-> updateDailyStats(NoDays, event, t),
         lastUpdated |-> t]

\* what the earlier session left in the store: <<number of calls, age>>
Preloads ==
    {<<1, 6 * MsPerDay>>, <<1, SevenDays>>,
     <<MaxEvents - 1, MsPerDay>>, <<MaxEvents, MsPerDay>>}

\* entries the program did not write
ForeignEntries(t) == {Unparseable, JsonNull, Json([lastUpdated |-> t])}

NoEntry == [entry |-> Absent, tracked |-> <<>>]

NoPayload == [kind |-> "none"]

\* the Gallery before it is mounted: no timeout was ever set
GalleryIdle ==
    /\ galleryMounted = FALSE
    /\ searchQuery = ""
    /\ timers = {}
    /\ timeoutId = 0
    /\ timerSeq = 0
    /\ changedAt = 0

\* PWAInstallPrompt before it is mounted, on a browser where the prompt was
\* never dismissed
PromptIdle ==
    /\ promptMounted = FALSE
    /\ listening = FALSE
    /\ deferredPrompt = 0
    /\ showInstallPrompt = FALSE
    /\ isInstalled = FALSE
    /\ effectPending = FALSE
    /\ awaitingChoice = FALSE
    /\ dismissedEntry = Absent
    /\ eventSeq = 0

\* the GameDetail page before it is mounted
DetailIdle ==
    /\ detailMounted = FALSE
    /\ slug = ""
    /\ game = ""
    /\ loading = TRUE
    /\ error = ""
    /\ loads = {}
    /\ loadSeq = 0

\* no component is mounted and no call of sanitizeData is under way
UiIdle ==
    /\ payload = NoPayload
    /\ sanitized = NoPayload
    /\ uiSteps = 0
    /\ GalleryIdle
    /\ PromptIdle
    /\ DetailIdle

\* without a window object there is no store, hence no entry
InitWith(entries) ==
    /\ UiIdle
    /\ initialized = FALSE
    /\ now = StartTime
    /\ hasWindow \in BOOLEAN
    /\ analyticsData = FreshData(now)
    /\ \E e \in (IF hasWindow THEN entries ELSE {NoEntry}) :
          /\ store = e.entry
          /\ storedTracked = e.tracked
    /\ summary = NoSummary
    /\ raised = "none"
    /\ lastCall = [op |-> "load", mode |-> "ok", args |-> <<>>]
    /\ tracked = <<>>
    /\ calls = 0

OwnEntries ==
    {NoEntry} \cup
    {[entry   |-> Json(Stringify(EarlierSession(p[1], "/", StartTime - p[2]))),
      tracked |-> EarlierSession(p[1], "/", StartTime - p[2]).events] :
        p \in Preloads}

\* the store holds nothing, or what an earlier session of the program wrote
Init == InitWith(OwnEntries)

\* the store may also hold an entry the program did not write
InitForeign ==
    InitWith(OwnEntries \cup
             {[entry |-> e, tracked |-> <<>>] : e \in ForeignEntries(StartTime)})

----------------------------------------------------------------------------
(* Actions: one per exported operation *)

\* a call of trackEvent made by operation op, on the state d0 established
\* before it (replaced: d0 is a new object assigned to analyticsData)
Track(op, args, d0, replaced, eventType, data, mode) ==
    LET r == trackEvent(d0, store, eventType, data, now, hasWindow, mode)
        history == IF replaced THEN storedTracked ELSE tracked
    IN  /\ calls < MaxCalls
        /\ calls' = calls + 1
        /\ analyticsData' = r.data
        /\ store' = r.store
        /\ raised' = r.raised
        /\ lastCall' = [op |-> op, mode |-> mode, args |-> args]
        /\ summary' = SummaryAfter(summary, r.data, replaced)
        /\ tracked' = IF r.recorded
                      THEN Append(history, NewEvent(eventType, data, now))
                      ELSE history
        /\ storedTracked' = IF r.wrote THEN tracked' ELSE storedTracked
        /\ initialized' = (initialized \/ op = "initAnalytics")
        /\ UNCHANGED <<now, hasWindow>>

initAnalytics ==
    /\ UNCHANGED uiVars
    /\ \E p \in Paths, mode \in ModesFor(hasWindow) :
           Track("initAnalytics", <<p>>,
                 LoadStored(analyticsData, store, now, hasWindow, mode),
                 Adopts(store, now, hasWindow, mode),
                 "page_view", [path |-> Str(p), timestamp |-> Num(now)], mode)

trackPageView ==
    /\ UNCHANGED uiVars
    /\ \E p \in Paths, mode \in ModesFor(hasWindow) :
           Track("trackPageView", <<p>>, analyticsData, FALSE,
                 "page_view", [path |-> Str(p)], mode)

trackGamePlay ==
    /\ UNCHANGED uiVars
    /\ \E gameSlug \in Slugs, mode \in ModesFor(hasWindow) :
           Track("trackGamePlay", <<gameSlug>>, analyticsData, FALSE,
                 "game_play", [gameSlug |-> Str(gameSlug)], mode)

trackSearch ==
    /\ UNCHANGED uiVars
    /\ \E query \in Queries, mode \in ModesFor(hasWindow) :
           Track("trackSearch", <<query>>, analyticsData, FALSE,
                 "search_query", [query |-> Str(query)], mode)

trackFilterUsed ==
    /\ UNCHANGED uiVars
    /\ \E filterType \in FilterTypes, filterValue \in FilterValues,
          mode \in ModesFor(hasWindow) :
           Track("trackFilterUsed", <<filterType, filterValue>>, analyticsData,
                 FALSE, "filter_used",
                 [filterType |-> Str(filterType), filterValue |-> Str(filterValue)],
                 mode)

getAnalyticsSummary ==
    /\ calls < MaxCalls
    /\ calls' = calls + 1
    /\ lastCall' = [op |-> "getAnalyticsSummary", mode |-> "ok", args |-> <<>>]
    /\ IF "events" \in DOMAIN analyticsData
       THEN /\ summary' = SummaryOf(analyticsData)
            /\ raised' = "none"
       ELSE \* analyticsData.events.length throws
            /\ summary' = summary
            /\ raised' = "TypeError"
    /\ UNCHANGED <<now, hasWindow, analyticsData, store, tracked,
                   storedTracked, initialized>>
    /\ UNCHANGED uiVars

\* resetAnalytics without its removeItem call
removeEntry_KeepsEntry(st, win, mode) ==
    IF win /\ mode = "throws" THEN [store |-> st, raised |-> "SecurityError"]
    ELSE [store |-> st, raised |-> "none"]

\* resetAnalytics: the entry it leaves and what it raises
removeEntry(st, win, mode) ==
    IF ~win THEN [store |-> st, raised |-> "none"]
    ELSE IF mode = "throws" THEN [store |-> st, raised |-> "SecurityError"]
    ELSE [store |-> Absent, raised |-> "none"]

resetAnalytics ==
    \E mode \in ModesFor(hasWindow) :
        LET r == removeEntry(store, hasWindow, mode)
        IN  /\ calls < MaxCalls
            /\ calls' = calls + 1
            /\ lastCall' = [op |-> "resetAnalytics", mode |-> mode, args |-> <<>>]
            /\ analyticsData' = FreshData(now)
            /\ store' = r.store
            /\ raised' = r.raised
            /\ summary' = SummaryAfter(summary, analyticsData', TRUE)
            /\ tracked' = <<>>
            /\ storedTracked' = IF r.store = Absent THEN <<>> ELSE storedTracked
            /\ UNCHANGED <<now, hasWindow, initialized>>
            /\ UNCHANGED uiVars

\* a page reload: the module is evaluated again, the store is kept
Reload ==
    /\ calls < MaxCalls
    /\ calls' = calls + 1
    /\ lastCall' = [op |-> "load", mode |-> "ok", args |-> <<>>]
    /\ analyticsData' = FreshData(now)
    /\ summary' = NoSummary
    /\ raised' = "none"
    /\ tracked' = <<>>
    /\ initialized' = FALSE
    /\ UNCHANGED <<now, hasWindow, store, storedTracked>>
    /\ UNCHANGED uiVars

\* a day passes between two calls
Tick ==
    /\ calls < MaxCalls
    /\ calls' = calls + 1
    /\ now' = now + MsPerDay
    /\ UNCHANGED <<hasWindow, analyticsData, store, summary, raised, lastCall,
                   tracked, storedTracked, initialized>>
    /\ UNCHANGED uiVars

Next ==
    \/ initAnalytics
    \/ trackPageView
    \/ trackGamePlay
    \/ trackSearch
    \/ trackFilterUsed
    \/ getAnalyticsSummary
    \/ resetAnalytics
    \/ Reload
    \/ Tick

Spec == Init /\ [][Next]_vars

\* event types handed to trackEvent: one of the enumeration that has no
\* total, a key of ALLOWED_EVENTS, the empty string and an unknown name
EventTypes == {"game_favorite", "PAGE_VIEW", "", "game_share"}

\* trackEvent called as the module calls it, with any event type
trackEventCall ==
    /\ UNCHANGED uiVars
    /\ \E eventType \in EventTypes, gameSlug \in Slugs,
          mode \in ModesFor(hasWindow) :
           Track("trackEvent", <<eventType, gameSlug>>, analyticsData, FALSE,
                 eventType, [gameSlug |-> Str(gameSlug)], mode)

NextInternal == Next \/ trackEventCall

SpecInternal == Init /\ [][NextInternal]_vars

SpecForeign == InitForeign /\ [][Next]_vars

----------------------------------------------------------------------------
(* sanitizeData called on its own, on payloads drawn from a bounded set *)

MaxPayloadKeys == 2

Chars10 == "abcdefghij"

Chars50 == Chars10 \o Chars10 \o Chars10 \o Chars10 \o Chars10

\* strings of 100, 101 and 150 characters
Chars100 == Chars50 \o Chars50

Chars101 == Chars100 \o "k"

Chars150 == Chars100 \o Chars50

\* keys next to the personal ones: other case, other spelling, a longer name
PayloadKeys ==
    personalFields \cup {"Name", "userid", "emailAddress", "query"}

\* strings around the limit, a number, a boolean, a nested object holding a
\* personal field and a long string
PayloadValues ==
    {Str("v"), Str(Chars100), Str(Chars101), Str(Chars150), Num(7),
     [t |-> "boolean", v |-> TRUE],
     [t |-> "object", v |-> [email |-> Str(Chars150)]]}

Payloads ==
    UNION {[D -> PayloadValues] :
             D \in {K \in SUBSET PayloadKeys : Cardinality(K) <= MaxPayloadKeys}}
    \cup {[k \in PayloadKeys |-> Str(Chars150)]}

InitSanitize ==
    /\ InitWith({NoEntry})
    /\ hasWindow

\* const sanitizedData = sanitizeData(data)
Sanitize ==
    /\ payload.kind = "object"
    /\ sanitized.kind = "none"
    /\ sanitized' = [kind |-> "object", data |-> sanitizeData(payload.data)]
    /\ payload' = [kind |-> "object", data |-> sanitizeDataArgument(payload.data)]
    /\ UNCHANGED <<analyticsVars, componentVars>>

\* a caller builds a payload
BuildPayload ==
    /\ payload.kind = "none"
    /\ \E data \in Payloads : payload' = [kind |-> "object", data |-> data]
    /\ UNCHANGED <<analyticsVars, sanitized, componentVars>>

NextSanitize ==
    \/ BuildPayload
    \/ Sanitize

SpecSanitize == InitSanitize /\ [][NextSanitize]_vars

----------------------------------------------------------------------------
(* The search box of the Gallery.  A change of searchQuery re-renders the  *)
(* component and runs the cleanup of the previous search effect and then   *)
(* the effect itself; these form one step, as React runs the effects of an *)
(* update made in an input or click handler before the handler's task ends.*)

MaxUiSteps == 6

\* time that passes between two steps, in ms
TimeStep == 250

\* the delay handed to setTimeout
DebounceMs == 500

\* values the search box takes
TypedQueries == {"", " ", "a", "a ", " ab"}

RECURSIVE TrimStart(_)
TrimStart(s) ==
    IF Len(s) > 0 /\ SubSeq(s, 1, 1) = " "
    THEN TrimStart(SubSeq(s, 2, Len(s)))
    ELSE s

RECURSIVE TrimEnd(_)
TrimEnd(s) ==
    IF Len(s) > 0 /\ SubSeq(s, Len(s), Len(s)) = " "
    THEN TrimEnd(SubSeq(s, 1, Len(s) - 1))
    ELSE s

\* String.prototype.trim
Trim(s) == TrimEnd(TrimStart(s))

\* the search effect keeping the timeout of the previous run
clearTimeout_KeepsTimer(pending, id) == pending

\* clearTimeout(timeoutId), the cleanup of the search effect
clearTimeout(pending, id) == {tm \in pending : tm.id # id}

\* the search effect run for query q: the timeouts pending after the cleanup
\* of the previous run and the body of this one
SearchEffect(q) ==
    LET cleared == clearTimeout(timers, timeoutId)
    IN  IF Trim(q) # ""
        THEN /\ timers' = cleared \cup
                    {[id |-> timerSeq + 1, query |-> q, setAt |-> now]}
             /\ timeoutId' = timerSeq + 1
             /\ timerSeq' = timerSeq + 1
        ELSE /\ timers' = cleared
             /\ timeoutId' = 0
             /\ timerSeq' = timerSeq

UiStep ==
    /\ uiSteps < MaxUiSteps
    /\ uiSteps' = uiSteps + 1

\* the Gallery is mounted: searchQuery is '' and the effect sets no timeout
MountGallery ==
    /\ UiStep
    /\ ~galleryMounted
    /\ galleryMounted' = TRUE
    /\ searchQuery' = ""
    /\ changedAt' = now
    /\ SearchEffect("")
    /\ UNCHANGED <<analyticsVars, sanitizeVars, detailVars, promptVars>>

\* onChange of the search box, or handleClearSearch when q is ''
ChangeQuery ==
    /\ UiStep
    /\ galleryMounted
    /\ \E q \in TypedQueries \ {searchQuery} :
           /\ searchQuery' = q
           /\ SearchEffect(q)
    /\ changedAt' = now
    /\ UNCHANGED <<analyticsVars, sanitizeVars, detailVars, promptVars,
                   galleryMounted>>

\* the Gallery is unmounted: the cleanup of the last effect runs
UnmountGallery ==
    /\ UiStep
    /\ galleryMounted
    /\ galleryMounted' = FALSE
    /\ timers' = clearTimeout(timers, timeoutId)
    /\ timeoutId' = 0
    /\ UNCHANGED <<analyticsVars, sanitizeVars, detailVars, promptVars,
                   searchQuery, timerSeq, changedAt>>

\* a timeout is due and its callback runs: trackSearch(searchQuery.trim()),
\* searchQuery being the value the effect was run for
TimeoutFires ==
    /\ \E tm \in timers :
           /\ now - tm.setAt >= DebounceMs
           /\ timers' = timers \ {tm}
           /\ \E mode \in ModesFor(hasWindow) :
                  Track("trackSearch", <<Trim(tm.query)>>, analyticsData, FALSE,
                        "search_query", [query |-> Str(Trim(tm.query))], mode)
    /\ UNCHANGED <<sanitizeVars, detailVars, promptVars, uiSteps, galleryMounted,
                   searchQuery, timeoutId, timerSeq, changedAt>>

\* time passes
Elapse ==
    /\ UiStep
    /\ now' = now + TimeStep
    /\ UNCHANGED <<hasWindow, analyticsData, store, summary, raised, lastCall,
                   tracked, storedTracked, calls, initialized>>
    /\ UNCHANGED <<sanitizeVars, detailVars, galleryVars, promptVars>>

InitDebounce ==
    /\ InitWith({NoEntry})
    /\ hasWindow

NextDebounce ==
    \/ MountGallery
    \/ ChangeQuery
    \/ UnmountGallery
    \/ TimeoutFires
    \/ Elapse

SpecDebounce == InitDebounce /\ [][NextDebounce]_vars

----------------------------------------------------------------------------
(* The PWAInstallPrompt component.  The state updates a handler makes are  *)
(* committed together when the handler returns; an effect whose dependency *)
(* changed in a commit runs after that commit, as a step of its own.       *)

MaxPromptEvents == 2

MsPerHour == 1000 * 60 * 60

\* the hours compared with hoursPassed
DismissHours == 24

\* time between two steps of the prompt: half a day
HalfDay == 12 * MsPerHour

Digits == <<"0", "1", "2", "3", "4", "5", "6", "7", "8", "9">>

\* Date.now().toString()
RECURSIVE NumberToString(_)
NumberToString(n) ==
    IF n < 10 THEN Digits[n + 1]
    ELSE NumberToString(n \div 10) \o Digits[(n % 10) + 1]

IsDigit(c) == \E i \in 1..10 : Digits[i] = c

DigitValue(c) == (CHOOSE i \in 1..10 : Digits[i] = c) - 1

RECURSIVE ParseDigits(_, _)
ParseDigits(str, acc) ==
    IF Len(str) = 0 \/ ~IsDigit(SubSeq(str, 1, 1)) THEN acc
    ELSE ParseDigits(SubSeq(str, 2, Len(str)),
                     10 * acc + DigitValue(SubSeq(str, 1, 1)))

\* parseInt(dismissed, 10) of a string without sign or leading blanks
parseInt(str) ==
    IF Len(str) = 0 \/ ~IsDigit(SubSeq(str, 1, 1)) THEN NaN
    ELSE Num(ParseDigits(str, 0))

\* hoursPassed < 24, for the dismissal time read from the entry
DismissedRecently(entry, t) ==
    /\ entry.kind = "string"
    /\ entry.value # ""
    /\ LET dismissedTime == parseInt(entry.value)
       IN  /\ dismissedTime.t = "number"
           /\ t - dismissedTime.v < DismissHours * MsPerHour

\* the component returns the prompt rather than null
Rendered ==
    /\ promptMounted
    /\ ~(isInstalled \/ ~showInstallPrompt \/ deferredPrompt = 0)

\* the component is mounted and its two effects run: the first one sets
\* isInstalled in standalone display mode and registers the listeners
\* otherwise; the second one finds deferredPrompt null
MountPrompt ==
    /\ UiStep
    /\ ~promptMounted
    /\ promptMounted' = TRUE
    /\ \E standalone \in BOOLEAN :
           /\ isInstalled' = standalone
           /\ listening' = ~standalone
    /\ UNCHANGED <<deferredPrompt, showInstallPrompt, effectPending,
                   awaitingChoice, dismissedEntry, eventSeq>>
    /\ UNCHANGED <<analyticsVars, sanitizeVars, detailVars, galleryVars>>

handleBeforeInstallPrompt ==
    /\ UiStep
    /\ listening
    /\ eventSeq < MaxPromptEvents
    /\ eventSeq' = eventSeq + 1
    /\ deferredPrompt' = eventSeq + 1
    /\ showInstallPrompt' = TRUE
    /\ effectPending' = TRUE
    /\ UNCHANGED <<promptMounted, listening, isInstalled, awaitingChoice,
                   dismissedEntry>>
    /\ UNCHANGED <<analyticsVars, sanitizeVars, detailVars, galleryVars>>

handleAppInstalled ==
    /\ UiStep
    /\ listening
    /\ isInstalled' = TRUE
    /\ showInstallPrompt' = FALSE
    /\ deferredPrompt' = 0
    /\ effectPending' = (effectPending \/ deferredPrompt # 0)
    /\ UNCHANGED <<promptMounted, listening, awaitingChoice, dismissedEntry,
                   eventSeq>>
    /\ UNCHANGED <<analyticsVars, sanitizeVars, detailVars, galleryVars>>

\* the Install button: prompt() is called and the handler waits
handleInstallClick ==
    /\ UiStep
    /\ Rendered
    /\ ~awaitingChoice
    /\ awaitingChoice' = TRUE
    /\ UNCHANGED <<promptMounted, listening, deferredPrompt, showInstallPrompt,
                   isInstalled, effectPending, dismissedEntry, eventSeq>>
    /\ UNCHANGED <<analyticsVars, sanitizeVars, detailVars, galleryVars>>

\* userChoice is settled and handleInstallClick goes on
ChoiceSettled ==
    /\ UiStep
    /\ awaitingChoice
    /\ awaitingChoice' = FALSE
    /\ deferredPrompt' = 0
    /\ showInstallPrompt' = FALSE
    /\ effectPending' = (effectPending \/ deferredPrompt # 0)
    /\ UNCHANGED <<promptMounted, listening, isInstalled, dismissedEntry,
                   eventSeq>>
    /\ UNCHANGED <<analyticsVars, sanitizeVars, detailVars, galleryVars>>

\* the "Not now" button
handleDismiss ==
    /\ UiStep
    /\ Rendered
    /\ showInstallPrompt' = FALSE
    /\ dismissedEntry' = [kind |-> "string", value |-> NumberToString(now)]
    /\ UNCHANGED <<promptMounted, listening, deferredPrompt, isInstalled,
                   effectPending, awaitingChoice, eventSeq>>
    /\ UNCHANGED <<analyticsVars, sanitizeVars, detailVars, galleryVars>>

\* the effect on [deferredPrompt]
DismissalEffect ==
    /\ effectPending
    /\ effectPending' = FALSE
    /\ showInstallPrompt' =
           IF DismissedRecently(dismissedEntry, now) /\ deferredPrompt # 0
           THEN FALSE
           ELSE showInstallPrompt
    /\ UNCHANGED <<promptMounted, listening, deferredPrompt, isInstalled,
                   awaitingChoice, dismissedEntry, eventSeq>>
    /\ UNCHANGED <<analyticsVars, sanitizeVars, detailVars, uiSteps,
                   galleryVars>>

\* the page is loaded again: the component state is lost, the entry is kept
ReloadPage ==
    /\ UiStep
    /\ promptMounted
    /\ promptMounted' = FALSE
    /\ listening' = FALSE
    /\ deferredPrompt' = 0
    /\ showInstallPrompt' = FALSE
    /\ isInstalled' = FALSE
    /\ effectPending' = FALSE
    /\ awaitingChoice' = FALSE
    /\ UNCHANGED <<dismissedEntry, eventSeq>>
    /\ UNCHANGED <<analyticsVars, sanitizeVars, detailVars, galleryVars>>

\* half a day passes
Wait ==
    /\ UiStep
    /\ now' = now + HalfDay
    /\ UNCHANGED <<hasWindow, analyticsData, store, summary, raised, lastCall,
                   tracked, storedTracked, calls, initialized>>
    /\ UNCHANGED <<sanitizeVars, detailVars, galleryVars, promptVars>>

InitPrompt ==
    /\ InitWith({NoEntry})
    /\ hasWindow

NextPrompt ==
    \/ MountPrompt
    \/ handleBeforeInstallPrompt
    \/ handleAppInstalled
    \/ handleInstallClick
    \/ ChoiceSettled
    \/ handleDismiss
    \/ DismissalEffect
    \/ ReloadPage
    \/ Wait

SpecPrompt == InitPrompt /\ [][NextPrompt]_vars

----------------------------------------------------------------------------
(* The GameDetail page.  A change of the route parameter re-renders the    *)
(* page and runs the effect on [slug], which calls loadGame; loadGame runs *)
(* up to its first await in that step and goes on when the fetch and then  *)
(* json() settle, in any order with the other calls still suspended.       *)

MaxLoads == 3

\* the slugs of manifest.games
ManifestSlugs == {"a", "b"}

\* the route parameters visited, one of them not in the manifest
RouteSlugs == ManifestSlugs \cup {"zz"}

NotFound == "Game not found"

LoadFailed == "Failed to load games"

\* loadGame up to `await fetch(...)`, called by the effect with slug s
StartLoad(s) ==
    /\ loadSeq < MaxLoads
    /\ loadSeq' = loadSeq + 1
    /\ loading' = TRUE
    /\ loads' = loads \cup {[id |-> loadSeq + 1, slug |-> s, stage |-> "fetch"]}

\* the page is mounted for a route and its effect runs
MountDetail ==
    /\ ~detailMounted
    /\ detailMounted' = TRUE
    /\ \E s \in RouteSlugs :
           /\ slug' = s
           /\ StartLoad(s)
    /\ UNCHANGED <<game, error>>
    /\ UNCHANGED <<analyticsVars, sanitizeVars, uiSteps, galleryVars, promptVars>>

\* the route changes to another game while the page stays mounted
ChangeSlug ==
    /\ detailMounted
    /\ \E s \in RouteSlugs \ {slug} :
           /\ slug' = s
           /\ StartLoad(s)
    /\ UNCHANGED <<detailMounted, game, error>>
    /\ UNCHANGED <<analyticsVars, sanitizeVars, uiSteps, galleryVars, promptVars>>

\* catch and finally of loadGame
LoadFails(l) ==
    /\ loads' = loads \ {l}
    /\ error' = LoadFailed
    /\ loading' = FALSE
    /\ UNCHANGED game

\* a fetch settles: the call goes on to `await response.json()`, or throws
\* when the fetch was rejected or response.ok is false
FetchSettles ==
    /\ \E l \in loads :
           /\ l.stage = "fetch"
           /\ \/ /\ loads' = (loads \ {l}) \cup {[l EXCEPT !.stage = "json"]}
                 /\ UNCHANGED <<game, loading, error>>
              \/ LoadFails(l)
    /\ UNCHANGED <<detailMounted, slug, loadSeq>>
    /\ UNCHANGED <<analyticsVars, sanitizeVars, uiSteps, galleryVars, promptVars>>

\* json() settles: the call looks up the slug it was started with, or
\* throws when the body is not a manifest
JsonSettles ==
    /\ \E l \in loads :
           /\ l.stage = "json"
           /\ \/ /\ l.slug \in ManifestSlugs
                 /\ loads' = loads \ {l}
                 /\ game' = l.slug
                 /\ error' = ""
                 /\ loading' = FALSE
              \/ /\ l.slug \notin ManifestSlugs
                 /\ loads' = loads \ {l}
                 /\ error' = NotFound
                 /\ loading' = FALSE
                 /\ UNCHANGED game
              \/ LoadFails(l)
    /\ UNCHANGED <<detailMounted, slug, loadSeq>>
    /\ UNCHANGED <<analyticsVars, sanitizeVars, uiSteps, galleryVars, promptVars>>

\* handleBack: the page is unmounted; what its suspended calls set later is
\* set on a component that is gone
LeaveDetail ==
    /\ detailMounted
    /\ detailMounted' = FALSE
    /\ slug' = ""
    /\ game' = ""
    /\ loading' = TRUE
    /\ error' = ""
    /\ loads' = {}
    /\ UNCHANGED loadSeq
    /\ UNCHANGED <<analyticsVars, sanitizeVars, uiSteps, galleryVars, promptVars>>

InitDetail ==
    /\ InitWith({NoEntry})
    /\ hasWindow

NextDetail ==
    \/ MountDetail
    \/ ChangeSlug
    \/ FetchSettles
    \/ JsonSettles
    \/ LeaveDetail

SpecDetail == InitDetail /\ [][NextDetail]_vars

----------------------------------------------------------------------------
(* Vocabulary of the properties *)

TrackingOps ==
    {"initAnalytics", "trackPageView", "trackGamePlay", "trackSearch",
     "trackFilterUsed"}

CounterFields == {"pageViews", "gamePlays", "searches", "filterUses"}

\* the step just taken was a call of operation op
Called(op) == calls' = calls + 1 /\ now' = now /\ lastCall'.op = op

\* the last call was a tracking call during which the store worked
TrackedWithWorkingStore ==
    /\ lastCall.op \in TrackingOps
    /\ hasWindow
    /\ lastCall.mode = "ok"

\* the last n elements of h, oldest first
LastN(h, n) ==
    IF Len(h) <= n THEN h ELSE [i \in 1..n |-> h[Len(h) - n + i]]

\* new is old with e appended, possibly with elements dropped from the front
AppendedOne(old, new, e) ==
    /\ Len(new) >= 1
    /\ Len(new) <= Len(old) + 1
    /\ new[Len(new)] = e
    /\ \A i \in 1..(Len(new) - 1) : new[i] = old[Len(old) - (Len(new) - 1) + i]

\* every event recorded into the current state was recorded today
AllTrackedToday ==
    /\ Len(tracked) = Len(analyticsData.events)
    /\ \A i \in 1..Len(tracked) : DayKey(tracked[i].timestamp) = DayKey(now)

----------------------------------------------------------------------------
(* C1: after any tracking call the event buffer holds at most 100 events,  *)
(* however the store behaves.  The code cuts the buffer only inside the    *)
(* try block of saveToStorage, after the store has answered.               *)
C1_BufferAtMost100 ==
    lastCall.op \in TrackingOps => Len(analyticsData.events) <= MaxEvents

(* C2: every tracked event with a counter adds 1 to the matching field of  *)
(* today's dailyStats entry, so that from a fresh state and within one day *)
(* dailyStats[today] equals totals field by field after every tracking     *)
(* call.  The code increments the property named by event.type instead.    *)
C2_DailyStatsEqualTotals ==
    (lastCall.op \in TrackingOps /\ AllTrackedToday) =>
        /\ DayKey(now) \in DOMAIN analyticsData.dailyStats
        /\ \A f \in CounterFields :
              analyticsData.dailyStats[DayKey(now)][f]
                  = Num(analyticsData.totals[f])

(* C3: no operation raises an error to its caller, whatever the store      *)
(* holds or does.                                                          *)
C3_NothingRaised == raised = "none"

(* C5: with a working store, after every tracking call the entry in the    *)
(* store is the serialization of the in-memory state.                      *)
C5_StoreIsSerializedState ==
    TrackedWithWorkingStore =>
        /\ store.kind = "json"
        /\ store.value.events = analyticsData.events
        /\ store.value.totals = analyticsData.totals
        /\ store.value.lastUpdated = analyticsData.lastUpdated
        /\ DOMAIN store.value.dailyStats = DOMAIN analyticsData.dailyStats
        /\ \A k \in DOMAIN analyticsData.dailyStats :
              /\ DOMAIN store.value.dailyStats[k]
                    = DOMAIN analyticsData.dailyStats[k]
              /\ \A f \in DOMAIN analyticsData.dailyStats[k] :
                    LET v == analyticsData.dailyStats[k][f]
                    IN  store.value.dailyStats[k][f]
                            = (IF v = NaN THEN Null ELSE v)

\* a game play was tracked over 100 buffered events and written: the entry
\* holds null where the state holds NaN
C5_Witness ==
    /\ TrackedWithWorkingStore
    /\ lastCall.op = "trackGamePlay"
    /\ Len(tracked) > MaxEvents
    /\ store.kind = "json"
    /\ analyticsData.dailyStats[DayKey(now)]["game_play"] = NaN
    /\ store.value.dailyStats[DayKey(now)]["game_play"] = Null

(* C7: with a working store the buffer is the 100 most recently tracked    *)
(* events, oldest first; while at most 100 events have been tracked it is  *)
(* all of them, in tracking order.                                         *)
C7_BufferIsMostRecent100 ==
    /\ Len(tracked) <= MaxEvents => analyticsData.events = tracked
    /\ TrackedWithWorkingStore =>
          analyticsData.events = LastN(tracked, MaxEvents)

\* 102 events tracked, the last a game play, the buffer cut to 100
C7_Witness ==
    /\ TrackedWithWorkingStore
    /\ Len(tracked) = MaxEvents + 2
    /\ Len(analyticsData.events) = MaxEvents
    /\ analyticsData.events[MaxEvents].type = "game_play"
    /\ analyticsData.events[1].type = "page_view"

----------------------------------------------------------------------------
(* Properties of single calls *)

\* the store holds a readable entry at the time of a call made in this mode
Readable(mode) == hasWindow /\ mode # "throws" /\ store.kind = "json"

\* analyticsData' is state d with one page view for path p recorded now
PageViewRecordedOn(d, p) ==
    /\ analyticsData'.totals = [d.totals EXCEPT !.pageViews = @ + 1]
    /\ AppendedOne(d.events, analyticsData'.events,
                   [type |-> "page_view",
                    data |-> [path |-> Str(p), timestamp |-> Num(now)],
                    timestamp |-> now])
    /\ Len(analyticsData'.events) = IF Len(d.events) < MaxEvents
                                    THEN Len(d.events) + 1 ELSE MaxEvents
    /\ \A k \in DOMAIN d.dailyStats \ {DayKey(now)} :
          /\ k \in DOMAIN analyticsData'.dailyStats
          /\ analyticsData'.dailyStats[k] = d.dailyStats[k]
    /\ DOMAIN analyticsData'.dailyStats = DOMAIN d.dailyStats \cup {DayKey(now)}

(* C4: when initAnalytics finds an entry older than 7 days, the state on   *)
(* which it records the initial page view is the fresh empty state,        *)
(* whatever the in-memory state was.  The code leaves analyticsData as it  *)
(* is when it does not adopt the entry.                                    *)
C4_StaleEntryGivesFreshState ==
    [][(/\ Called("initAnalytics")
        /\ Readable(lastCall'.mode)
        /\ now - store.value.lastUpdated > SevenDays)
       => PageViewRecordedOn(FreshData(now), lastCall'.args[1])]_vars

(* C6 as stated: an entry written by a tracking call whose lastUpdated is  *)
(* within 7 days of now is adopted by initAnalytics, which then records    *)
(* exactly one page view on top of it.                                     *)
C6_AdoptsWithinSevenDays ==
    [][(/\ Called("initAnalytics")
        /\ Readable(lastCall'.mode)
        /\ now - store.value.lastUpdated <= SevenDays)
       => PageViewRecordedOn(store.value, lastCall'.args[1])]_vars

(* C6 amended: an entry written by a tracking call whose lastUpdated is    *)
(* less than 7 days before now is adopted by initAnalytics, which then     *)
(* records exactly one page view on top of it: pageViews is the persisted  *)
(* value plus 1, the other totals are the persisted ones, the last         *)
(* buffered event is a page_view for the current path.                     *)
C6_AdoptsUnderSevenDays ==
    [][(/\ Called("initAnalytics")
        /\ Readable(lastCall'.mode)
        /\ now - store.value.lastUpdated < SevenDays)
       => PageViewRecordedOn(store.value, lastCall'.args[1])]_vars

\* initAnalytics has adopted an entry written six days earlier, over an
\* in-memory state that held other events
C6_Witness ==
    /\ lastCall.op = "initAnalytics"
    /\ hasWindow /\ lastCall.mode # "throws"
    /\ Len(analyticsData.events) = 2
    /\ analyticsData.events[1].timestamp = now - 6 * MsPerDay
    /\ analyticsData.events[2].data.path = Str(lastCall.args[1])
    /\ analyticsData.totals = [ZeroTotals EXCEPT !.pageViews = 2]
    /\ summary.kind = "record" /\ summary.totals.gamePlays = 1

\* the event a tracking operation builds from its arguments
ExpectedEvent(op, args) ==
    CASE op = "trackPageView" ->
            [type |-> "page_view", data |-> [path |-> Str(args[1])],
             timestamp |-> now]
      [] op = "trackGamePlay" ->
            [type |-> "game_play", data |-> [gameSlug |-> Str(args[1])],
             timestamp |-> now]
      [] op = "trackSearch" ->
            [type |-> "search_query", data |-> [query |-> Str(args[1])],
             timestamp |-> now]
      [] op = "trackFilterUsed" ->
            [type |-> "filter_used",
             data |-> [filterType |-> Str(args[1]),
                       filterValue |-> Str(args[2])],
             timestamp |-> now]

\* the total a tracking operation owns
OwnTotal(op) ==
    CASE op = "trackPageView"   -> "pageViews"
      [] op = "trackGamePlay"   -> "gamePlays"
      [] op = "trackSearch"     -> "searches"
      [] op = "trackFilterUsed" -> "filterUses"

(* C8: each public tracking operation adds exactly 1 to its own total,     *)
(* leaves the other three totals unchanged and appends exactly one event   *)
(* of its type carrying its arguments.                                     *)
C8_TracksOnlyOwnTotal ==
    [][\A op \in {"trackPageView", "trackGamePlay", "trackSearch",
                  "trackFilterUsed"} :
         Called(op) =>
            /\ \A f \in CounterFields :
                  analyticsData'.totals[f] =
                      analyticsData.totals[f] + (IF f = OwnTotal(op) THEN 1 ELSE 0)
            /\ AppendedOne(analyticsData.events, analyticsData'.events,
                           ExpectedEvent(op, lastCall'.args))
            /\ Len(tracked') = Len(tracked) + 1]_vars

\* trackGamePlay("x") has run on a state holding page views
C8_Witness ==
    /\ lastCall.op = "trackGamePlay"
    /\ lastCall.args = <<"x">>
    /\ analyticsData.totals.gamePlays = 1
    /\ analyticsData.totals.pageViews > 0
    /\ analyticsData.events[Len(analyticsData.events)].data.gameSlug = Str("x")

(* C9 as stated: resetAnalytics leaves the fresh empty state and the store *)
(* without the analytics entry.                                            *)
C9_ResetEmptiesStateAndStore ==
    lastCall.op = "resetAnalytics" =>
        /\ analyticsData.events = <<>>
        /\ analyticsData.totals = ZeroTotals
        /\ analyticsData.dailyStats = NoDays
        /\ store = Absent

(* C9 amended: resetAnalytics leaves the fresh empty state and, when the   *)
(* store can be accessed, the store without the entry; a                   *)
(* getAnalyticsSummary that follows it returns all-zero totals, empty      *)
(* dailyStats and eventCount 0; and a second resetAnalytics under the same *)
(* store behaviour changes neither totals, dailyStats, events nor the      *)
(* store content.                                                          *)
C9_ResetEmptiesState ==
    [][/\ Called("resetAnalytics") =>
            /\ analyticsData'.events = <<>>
            /\ analyticsData'.totals = ZeroTotals
            /\ analyticsData'.dailyStats = NoDays
            /\ (hasWindow /\ lastCall'.mode # "throws") => store' = Absent
       /\ (lastCall.op = "resetAnalytics" /\ Called("getAnalyticsSummary")) =>
            /\ summary'.kind = "record"
            /\ summary'.totals = ZeroTotals
            /\ summary'.dailyStats = NoDays
            /\ summary'.eventCount = 0
       /\ (/\ lastCall.op = "resetAnalytics"
           /\ Called("resetAnalytics")
           /\ lastCall'.mode = lastCall.mode) =>
            /\ analyticsData'.events = analyticsData.events
            /\ analyticsData'.totals = analyticsData.totals
            /\ analyticsData'.dailyStats = analyticsData.dailyStats
            /\ store' = store]_vars

\* resetAnalytics has run on a state whose summary showed a buffered event,
\* and has removed the entry
C9_Witness ==
    /\ lastCall.op = "resetAnalytics"
    /\ hasWindow /\ lastCall.mode = "ok"
    /\ summary.kind = "record" /\ summary.eventCount > 0
    /\ analyticsData.events = <<>>
    /\ store = Absent

(* C10: the record getAnalyticsSummary returns is a snapshot: later        *)
(* tracking calls do not change its totals or dailyStats, and              *)
(* getAnalyticsSummary changes neither the in-memory state nor the store.  *)
(* The code returns analyticsData.totals and analyticsData.dailyStats      *)
(* themselves, which trackEvent updates in place.                          *)
C10_SummaryIsSnapshot ==
    [][/\ (summary.kind = "record" /\ \E op \in TrackingOps : Called(op)) =>
            /\ summary'.totals = summary.totals
            /\ summary'.dailyStats = summary.dailyStats
       /\ Called("getAnalyticsSummary") =>
            /\ analyticsData' = analyticsData
            /\ store' = store]_vars

----------------------------------------------------------------------------
\* the keys of the JavaScript record a summary stands for: kind and live are
\* the model's own bookkeeping (see SummaryOf)
SummaryKeys(s) == DOMAIN s \ {"kind", "live"}

(* C11: getAnalyticsSummary returns a record with exactly the keys totals, *)
(* dailyStats, lastUpdated and eventCount, never a key named events, and   *)
(* its eventCount is the current length of the event buffer.               *)
C11_SummaryShape ==
    lastCall.op = "getAnalyticsSummary" =>
        /\ summary.kind = "record"
        /\ SummaryKeys(summary) =
              {"totals", "dailyStats", "lastUpdated", "eventCount"}
        /\ "events" \notin SummaryKeys(summary)
        /\ summary.eventCount = Len(analyticsData.events)

\* a summary was taken while the buffer held 101 events (the store had
\* thrown during the last tracking call)
C11_Witness ==
    /\ lastCall.op = "getAnalyticsSummary"
    /\ summary.kind = "record"
    /\ summary.eventCount = MaxEvents + 1
    /\ Len(analyticsData.events) = MaxEvents + 1

----------------------------------------------------------------------------
\* the string is its first 100 characters followed by "..."
CutTo100(long, out) ==
    /\ Len(out) = 103
    /\ SubSeq(out, 1, 100) = SubSeq(long, 1, 100)
    /\ SubSeq(out, 101, 103) = "..."

(* C12: sanitization removes exactly the keys name, email, phone, address, *)
(* ip and userId and keeps every other key; a string value longer than 100 *)
(* characters becomes its first 100 characters followed by the ellipsis    *)
(* marker; shorter strings and non-string values are untouched; the        *)
(* caller's payload object is not modified.                                *)
C12_SanitizeData ==
    [][(sanitized.kind = "none" /\ sanitized'.kind = "object") =>
         LET in  == payload.data
             out == sanitized'.data
         IN  /\ payload' = payload
             /\ DOMAIN out = DOMAIN in \
                   {"name", "email", "phone", "address", "ip", "userId"}
             /\ \A k \in DOMAIN out :
                   IF in[k].t = "string" /\ Len(in[k].v) > 100
                   THEN out[k].t = "string" /\ CutTo100(in[k].v, out[k].v)
                   ELSE out[k] = in[k]]_vars

\* a payload with a personal key and a 150-character query was sanitized
C12_Witness ==
    /\ sanitized.kind = "object"
    /\ DOMAIN payload.data = {"email", "query"}
    /\ payload.data["query"] = Str(Chars150)
    /\ DOMAIN sanitized.data = {"query"}
    /\ Len(sanitized.data["query"].v) = 103

----------------------------------------------------------------------------
\* no total is lower after the step than before it
TotalsNotLower ==
    \A f \in CounterFields : analyticsData'.totals[f] >= analyticsData.totals[f]

\* the step stays within one session: initAnalytics had run before it and
\* the page is not reloaded by it
WithinSession == initialized /\ initialized'

(* C13 as stated: within a session, after initAnalytics has run, no total  *)
(* decreases from one state to the next, except across resetAnalytics.     *)
C13_TotalsMonotonic ==
    [][(WithinSession /\ ~Called("resetAnalytics")) => TotalsNotLower]_vars

(* C13 amended: within a session, after initAnalytics has run, no total    *)
(* decreases from one state to the next, except across resetAnalytics and  *)
(* across a further initAnalytics call that adopts the stored entry.       *)
C13_TotalsMonotonicButAdoption ==
    [][(/\ WithinSession
        /\ ~Called("resetAnalytics")
        /\ ~(/\ Called("initAnalytics")
             /\ Readable(lastCall'.mode)
             /\ store.value.lastUpdated > now - SevenDays))
       => TotalsNotLower]_vars

\* in a session, a game play was tracked on top of page views, and before
\* that a summary had been returned
C13_Witness ==
    /\ initialized
    /\ lastCall.op = "trackGamePlay"
    /\ analyticsData.totals.gamePlays = 1
    /\ analyticsData.totals.pageViews >= 1
    /\ summary.kind = "record"

----------------------------------------------------------------------------
(* C14: trackEvent with an event type outside the enumeration is a no-op:  *)
(* totals, dailyStats, the event buffer, lastUpdated and the stored entry  *)
(* are unchanged and nothing is raised.                                    *)
C14_UnlistedTypeIsNoOp ==
    [][(Called("trackEvent") /\ lastCall'.args[1] \notin ALLOWED_EVENTS) =>
           /\ analyticsData' = analyticsData
           /\ store' = store
           /\ raised' = "none"
           /\ tracked' = tracked]_vars

\* trackEvent was called with a key of ALLOWED_EVENTS on a state that holds
\* events and a stored entry, with the store writable
C14_Witness ==
    /\ lastCall.op = "trackEvent"
    /\ lastCall.args[1] = "PAGE_VIEW"
    /\ lastCall.mode = "ok"
    /\ hasWindow
    /\ store.kind = "json"
    /\ Len(analyticsData.events) >= 1
    /\ analyticsData.totals.pageViews >= 1

----------------------------------------------------------------------------
(* C15: search tracking in the Gallery is debounced.  trackSearch is       *)
(* called only with the trimmed, non-empty current search query, once that *)
(* query has stayed unchanged for 500 ms; every change of the query and    *)
(* the unmount cancel the pending timer, so at most one timer is pending,  *)
(* a burst of changes less than 500 ms apart gives at most one event, for  *)
(* the final value, and a blank query never gives one.                     *)
C15_SearchIsDebounced ==
    [][/\ Cardinality(timers') <= 1
       /\ \A tm \in timers' :
              galleryMounted' /\ tm.query = searchQuery' /\ Trim(tm.query) # ""
       /\ (searchQuery' # searchQuery \/ (galleryMounted /\ ~galleryMounted'))
              => timers \cap timers' = {}
       /\ Called("trackSearch") =>
              /\ galleryMounted
              /\ lastCall'.args = <<Trim(searchQuery)>>
              /\ Trim(searchQuery) # ""
              /\ now - changedAt >= DebounceMs
              /\ Len(tracked') = Len(tracked) + 1
              /\ tracked'[Len(tracked')].data = [query |-> Str(Trim(searchQuery))]
      ]_vars

\* after a burst of three changes, two of which set a timeout that was
\* cancelled, the one search recorded is that of the final value, trimmed
C15_Witness ==
    /\ lastCall.op = "trackSearch"
    /\ lastCall.args = <<"ab">>
    /\ searchQuery = " ab"
    /\ timerSeq = 3
    /\ timers = {}
    /\ analyticsData.totals.searches = 1

----------------------------------------------------------------------------
(* C16: after "Not now" the prompt is not shown again for 24 hours: in no  *)
(* state within 24 hours of the recorded dismissal time is the prompt      *)
(* rendered, even if a new beforeinstallprompt event arrives or the page   *)
(* is reloaded; and it is never rendered once the app is installed or      *)
(* while no deferred install event is held.                                *)
C16_NoPromptAfterDismissal ==
    /\ DismissedRecently(dismissedEntry, now) => ~Rendered
    /\ (isInstalled \/ deferredPrompt = 0) => ~Rendered

----------------------------------------------------------------------------
\* the page shows a game: none of the render guards returns early
GameDisplayed == detailMounted /\ ~loading /\ error = "" /\ game # ""

\* the call of loadGame started for the current route is still suspended
CurrentLoadInFlight == \E l \in loads : l.id = loadSeq

(* C17: on the game detail page, whenever loading is false and a game is   *)
(* displayed, the displayed game's slug is the current route slug, for     *)
(* every interleaving of route changes with completions of the fetches     *)
(* started for earlier slugs; a fetch started for an old slug does not     *)
(* clear the loading flag of a load still in flight.                       *)
C17_DisplayedGameMatchesRoute ==
    /\ GameDisplayed => game = slug
    /\ (detailMounted /\ CurrentLoadInFlight) => loading

====
